---- MODULE Spec2Model ----
(***************************************************************************)
(* Model of spotify-playlist-dumper: the spdump entry point                *)
(* (cmd/spdump/spdump.go) and the spotify package it drives                *)
(* (internal/spotify/spotify.go and its later copy, unnamed/part_002).     *)
(*                                                                         *)
(* Conventions                                                             *)
(*   - a Go slice is a record [nil, elems]: a nil slice and an empty       *)
(*     non-nil slice are different values of length 0;                     *)
(*   - a Go error is a sequence of message words, <<>> being nil;          *)
(*   - artist names and error messages, which the code concatenates, are   *)
(*     sequences of text atoms; the other strings are TLA+ strings;        *)
(*   - a JSON document is a record keyed by the JSON member names; a       *)
(*     member that is absent from the document is absent from the record.  *)
(* Struct fields that no function of the package reads (URI, TrackURI,     *)
(* DurationMS, the album's and playlist's ExternalURL) are left out.       *)
(***************************************************************************)
EXTENDS Integers, Sequences, FiniteSets, TLC

\* ------------------------------------------------------------------ bounds
MaxTracks == 2
MaxCalls == 3

\* --------------------------------------------------------------- Go values
NilSlice == [nil |-> TRUE, elems |-> <<>>]

MkSlice(s) == [nil |-> FALSE, elems |-> s]

GoLen(sl) == Len(sl.elems)

GoAppend(sl, x) == [nil |-> FALSE, elems |-> Append(sl.elems, x)]

NoErr == <<>>

\* a JSON object, or a TOML tree, with no member
EmptyDoc == [k \in {} |-> k]

IsErr(e) == e # NoErr

Range(s) == {s[i] : i \in 1..Len(s)}

\* strings.Join over texts (sequences of atoms)
RECURSIVE Join(_, _)
Join(names, sep) ==
    IF Len(names) = 0 THEN <<>>
    ELSE IF Len(names) = 1 THEN names[1]
    ELSE names[1] \o sep \o Join(Tail(names), sep)

\* ------------------------------------------------------ provider entities
ZeroExternalURL == [Spotify |-> ""]

ZeroAlbum ==
    [Name |-> "", Images |-> NilSlice, IntegrationID |-> "",
     ReleaseDate |-> "", Artists |-> NilSlice,
     TracksCollection |-> [Items |-> NilSlice]]

ZeroTrack ==
    [Album |-> ZeroAlbum, Name |-> "", PreviewURL |-> "",
     IntegrationID |-> "", ExternalURL |-> ZeroExternalURL,
     Artists |-> NilSlice]

ZeroPlaylist ==
    [Name |-> "", Images |-> NilSlice, IntegrationID |-> "",
     TracksCollection |-> [Items |-> NilSlice]]

ZeroTokenResponse == [AccessToken |-> ""]

\* ---------------------------------------------------------- encoding/json
\* A response body is [syntax, mistyped, doc]: syntax says whether the bytes
\* are syntactically valid JSON, doc is the top-level object, and mistyped
\* is the set of top-level members whose JSON value does not fit the Go
\* field (json.Unmarshal skips such a member and reports the error).
JSONSyntaxError == <<"invalid character">>

JSONTypeError == <<"json: cannot unmarshal">>

Has(doc, key) == key \in DOMAIN doc

Get(doc, key, zero) == IF Has(doc, key) THEN doc[key] ELSE zero

DecodeImage(d) ==
    [Height |-> Get(d, "height", 0), Width |-> Get(d, "width", 0),
     URL |-> Get(d, "url", "")]

\* a JSON array decodes to a non-nil slice, an absent member to a nil one
DecodeImages(d) ==
    IF Has(d, "images")
    THEN MkSlice([i \in 1..Len(d["images"]) |-> DecodeImage(d["images"][i])])
    ELSE NilSlice

DecodeArtist(d) ==
    [Name |-> Get(d, "name", <<>>), IntegrationID |-> Get(d, "id", "")]

DecodeArtists(d) ==
    IF Has(d, "artists")
    THEN MkSlice([i \in 1..Len(d["artists"]) |-> DecodeArtist(d["artists"][i])])
    ELSE NilSlice

DecodeExternalURL(d) == [Spotify |-> Get(d, "spotify", "")]

\* an album embedded in a track: the provider sends no "tracks" member there
DecodeAlbum(d) ==
    [Name |-> Get(d, "name", ""),
     Images |-> DecodeImages(d),
     IntegrationID |-> Get(d, "id", ""),
     ReleaseDate |-> Get(d, "release_date", ""),
     Artists |-> DecodeArtists(d),
     TracksCollection |-> [Items |-> NilSlice]]

DecodeTrack(d) ==
    [Album |-> IF Has(d, "album") THEN DecodeAlbum(d["album"]) ELSE ZeroAlbum,
     Name |-> Get(d, "name", ""),
     PreviewURL |-> Get(d, "preview_url", ""),
     IntegrationID |-> Get(d, "id", ""),
     ExternalURL |-> IF Has(d, "external_urls")
                     THEN DecodeExternalURL(d["external_urls"])
                     ELSE ZeroExternalURL,
     Artists |-> DecodeArtists(d)]

DecodePlaylistTrack(d) ==
    [Track |-> IF Has(d, "track") THEN DecodeTrack(d["track"]) ELSE ZeroTrack]

DecodePlaylistTracks(d) ==
    [Items |-> IF Has(d, "items")
               THEN MkSlice([i \in 1..Len(d["items"]) |->
                                 DecodePlaylistTrack(d["items"][i])])
               ELSE NilSlice]

\* the "tracks" member of a top-level album
DecodeTracksResult(d) ==
    [Items |-> IF Has(d, "items")
               THEN MkSlice([i \in 1..Len(d["items"]) |->
                                 DecodeTrack(d["items"][i])])
               ELSE NilSlice]

\* a member is stored when it is present and of the right type
Stored(body, key) == Has(body.doc, key) /\ key \notin body.mistyped

\* the members of the document that json.Unmarshal decodes
Fit(body) == [k \in (DOMAIN body.doc) \ body.mistyped |-> body.doc[k]]

UnmarshalErr(body) ==
    IF ~body.syntax THEN JSONSyntaxError
    ELSE IF body.mistyped # {} THEN JSONTypeError
    ELSE NoErr

\* json.Unmarshal(body, &playlist), playlist being the zero value `into`
UnmarshalPlaylist(body, into) ==
    IF ~body.syntax THEN [err |-> JSONSyntaxError, val |-> into]
    ELSE [err |-> UnmarshalErr(body),
          val |-> [Name |-> IF Stored(body, "name") THEN body.doc["name"]
                            ELSE into.Name,
                   Images |-> IF Stored(body, "images")
                              THEN DecodeImages(body.doc)
                              ELSE into.Images,
                   IntegrationID |-> IF Stored(body, "id") THEN body.doc["id"]
                                     ELSE into.IntegrationID,
                   TracksCollection |->
                       IF Stored(body, "tracks")
                       THEN DecodePlaylistTracks(body.doc["tracks"])
                       ELSE into.TracksCollection]]

UnmarshalTrack(body, into) ==
    IF ~body.syntax THEN [err |-> JSONSyntaxError, val |-> into]
    ELSE LET d == DecodeTrack(Fit(body))
         IN [err |-> UnmarshalErr(body),
             val |-> [Album |-> IF Stored(body, "album") THEN d.Album
                                ELSE into.Album,
                      Name |-> IF Stored(body, "name") THEN d.Name
                               ELSE into.Name,
                      PreviewURL |-> IF Stored(body, "preview_url")
                                     THEN d.PreviewURL ELSE into.PreviewURL,
                      IntegrationID |-> IF Stored(body, "id")
                                        THEN d.IntegrationID
                                        ELSE into.IntegrationID,
                      ExternalURL |-> IF Stored(body, "external_urls")
                                      THEN d.ExternalURL ELSE into.ExternalURL,
                      Artists |-> IF Stored(body, "artists") THEN d.Artists
                                  ELSE into.Artists]]

\* a top-level album may carry its own "tracks" member
UnmarshalAlbum(body, into) ==
    IF ~body.syntax THEN [err |-> JSONSyntaxError, val |-> into]
    ELSE LET d == DecodeAlbum(Fit(body))
         IN [err |-> UnmarshalErr(body),
             val |-> [Name |-> IF Stored(body, "name") THEN d.Name
                               ELSE into.Name,
                      Images |-> IF Stored(body, "images") THEN d.Images
                                 ELSE into.Images,
                      IntegrationID |-> IF Stored(body, "id")
                                        THEN d.IntegrationID
                                        ELSE into.IntegrationID,
                      ReleaseDate |-> IF Stored(body, "release_date")
                                      THEN d.ReleaseDate ELSE into.ReleaseDate,
                      Artists |-> IF Stored(body, "artists") THEN d.Artists
                                  ELSE into.Artists,
                      TracksCollection |->
                          IF Stored(body, "tracks")
                          THEN DecodeTracksResult(body.doc["tracks"])
                          ELSE into.TracksCollection]]

\* json.Unmarshal(respbody, &spotTokenResp)
UnmarshalToken(body, into) ==
    IF ~body.syntax THEN [err |-> JSONSyntaxError, val |-> into]
    ELSE [err |-> UnmarshalErr(body),
          val |-> [AccessToken |-> IF Stored(body, "access_token")
                                   THEN body.doc["access_token"]
                                   ELSE into.AccessToken]]

\* -------------------------------------------------------------- translator
\* ConvertToMusicTrack reading the artists of the album, as
\* NewMusicSearchResultFromSpotify does
ConvertToMusicTrackAlbumArtists(st) ==
    LET artistNames == [i \in 1..GoLen(st.Album.Artists) |->
                            st.Album.Artists.elems[i].Name]
    IN [Name |-> st.Name,
        PreviewURL |-> st.PreviewURL,
        AlbumName |-> st.Album.Name,
        AlbumArt |-> st.Album.Images,
        AlbumReleaseDate |-> st.Album.ReleaseDate,
        IntegrationID |-> st.IntegrationID,
        Source |-> "spotify",
        ExternalURL |-> st.ExternalURL.Spotify,
        Artists |-> Join(artistNames, <<", ">>)]

\* ConvertToMusicTrack keeping only the largest image of the album
ConvertToMusicTrackOneImage(st) ==
    LET artistNames == [i \in 1..GoLen(st.Artists) |-> st.Artists.elems[i].Name]
    IN [Name |-> st.Name,
        PreviewURL |-> st.PreviewURL,
        AlbumName |-> st.Album.Name,
        AlbumArt |-> IF GoLen(st.Album.Images) > 1
                     THEN MkSlice(<<st.Album.Images.elems[1]>>)
                     ELSE st.Album.Images,
        AlbumReleaseDate |-> st.Album.ReleaseDate,
        IntegrationID |-> st.IntegrationID,
        Source |-> "spotify",
        ExternalURL |-> st.ExternalURL.Spotify,
        Artists |-> Join(artistNames, <<", ">>)]

\* part_002: the artists are joined into one string
ConvertToMusicTrack(st) ==
    LET artistNames == [i \in 1..GoLen(st.Artists) |-> st.Artists.elems[i].Name]
    IN [Name |-> st.Name,
        PreviewURL |-> st.PreviewURL,
        AlbumName |-> st.Album.Name,
        AlbumArt |-> st.Album.Images,
        AlbumReleaseDate |-> st.Album.ReleaseDate,
        IntegrationID |-> st.IntegrationID,
        Source |-> "spotify",
        ExternalURL |-> st.ExternalURL.Spotify,
        Artists |-> Join(artistNames, <<", ">>)]

\* internal/spotify/spotify.go: the artists are a list of MusicArtist
RECURSIVE AppendArtists(_, _, _)
AppendArtists(acc, artists, i) ==
    IF i > Len(artists) THEN acc
    ELSE AppendArtists(
             GoAppend(acc, [Name |-> artists[i].Name,
                            IntegrationID |-> artists[i].IntegrationID]),
             artists, i + 1)

ConvertToMusicTrackList(st) ==
    [Name |-> st.Name,
     PreviewURL |-> st.PreviewURL,
     AlbumName |-> st.Album.Name,
     AlbumArt |-> st.Album.Images,
     AlbumReleaseDate |-> st.Album.ReleaseDate,
     IntegrationID |-> st.IntegrationID,
     Source |-> "spotify",
     ExternalURL |-> st.ExternalURL.Spotify,
     Artists |-> AppendArtists(MkSlice(<<>>), st.Artists.elems, 1)]

ZeroMusicAlbum ==
    [Name |-> "", AlbumArt |-> NilSlice, ReleaseDate |-> "",
     Artists |-> NilSlice, Tracks |-> NilSlice, IntegrationID |-> ""]

\* the track loop of ConvertToMusicAlbum without `track.Album = sa`
RECURSIVE AlbumTracksDetached(_, _, _, _)
AlbumTracksDetached(sa, acc, items, i) ==
    IF i > Len(items) THEN acc
    ELSE AlbumTracksDetached(
             sa, [Tracks |-> GoAppend(acc.Tracks,
                                      ConvertToMusicTrackList(items[i])),
                  items |-> acc.items],
             items, i + 1)

\* The track loop of ConvertToMusicAlbum, from item i on.  acc.Tracks is
\* ma.Tracks; acc.items is the array behind sa.TracksCollection.Items, which
\* the caller's album shares: the loop assigns to its variable `track`, a
\* copy of the element, and never to the array.
RECURSIVE AlbumTracks(_, _, _, _)
AlbumTracks(sa, acc, items, i) ==
    IF i > Len(items) THEN acc
    ELSE LET track == [items[i] EXCEPT !.Album = sa]
         IN AlbumTracks(
                sa, [Tracks |-> GoAppend(acc.Tracks,
                                         ConvertToMusicTrackList(track)),
                     items |-> acc.items],
                items, i + 1)

\* internal/spotify/spotify.go only: the result is the MusicAlbum and the
\* caller's album as the call leaves it
ConvertToMusicAlbum(sa) ==
    LET ma0 == [Name |-> sa.Name,
                IntegrationID |-> sa.IntegrationID,
                AlbumArt |-> sa.Images,
                ReleaseDate |-> sa.ReleaseDate,
                Artists |-> AppendArtists(MkSlice(<<>>), sa.Artists.elems, 1),
                Tracks |-> NilSlice]
        start == [Tracks |-> ma0.Tracks,
                  items |-> sa.TracksCollection.Items.elems]
        loop == IF GoLen(sa.TracksCollection.Items) > 0
                THEN AlbumTracks(sa, start, sa.TracksCollection.Items.elems, 1)
                ELSE start
    IN [ma |-> [ma0 EXCEPT !.Tracks = loop.Tracks],
        sa |-> [sa EXCEPT !.TracksCollection.Items.elems = loop.items]]

Builds == {"part_002", "spotify_go"}

TrackOf(b, st) ==
    IF b = "part_002" THEN ConvertToMusicTrack(st)
    ELSE ConvertToMusicTrackList(st)

\* a loop that stops one item short
RECURSIVE AppendTracksShort(_, _, _, _)
AppendTracksShort(b, acc, items, i) ==
    IF i >= Len(items) THEN acc
    ELSE AppendTracksShort(b, GoAppend(acc, TrackOf(b, items[i].Track)),
                           items, i + 1)

\* the range loop of ConvertToMusicPlaylist, from item i on
RECURSIVE AppendTracks(_, _, _, _)
AppendTracks(b, acc, items, i) ==
    IF i > Len(items) THEN acc
    ELSE AppendTracks(b, GoAppend(acc, TrackOf(b, items[i].Track)),
                      items, i + 1)

\* ConvertToMusicPlaylist starting from an empty, non-nil track list
ConvertToMusicPlaylistEmpty(b, sp) ==
    [Name |-> sp.Name,
     IntegrationID |-> sp.IntegrationID,
     PlaylistArt |-> sp.Images,
     Tracks |-> AppendTracks(b, MkSlice(<<>>),
                             sp.TracksCollection.Items.elems, 1)]

ConvertToMusicPlaylist(b, sp) ==
    LET playlist == [Name |-> sp.Name,
                     IntegrationID |-> sp.IntegrationID,
                     PlaylistArt |-> sp.Images,
                     Tracks |-> NilSlice]
    IN IF GoLen(sp.TracksCollection.Items) > 0
       THEN [playlist EXCEPT
                !.Tracks = AppendTracks(b, playlist.Tracks,
                                        sp.TracksCollection.Items.elems, 1)]
       ELSE playlist

\* json.Marshal(mp): the members written for a MusicPlaylist; Tracks carries
\* `json:",omitempty"`, PlaylistArt does not (a nil slice is written as null)
MarshalPlaylist(mp) ==
    [Name |-> mp.Name, PlaylistArt |-> mp.PlaylistArt,
     IntegrationID |-> mp.IntegrationID]
    @@ (IF GoLen(mp.Tracks) > 0 THEN [Tracks |-> mp.Tracks.elems]
        ELSE EmptyDoc)

\* ------------------------------------------------------------- environment
\* What client.Do returns: a transport error (no response) or a response
\* with a status and a body.
Response(status, body) == [transport |-> FALSE, status |-> status, body |-> body]

Garbage == [syntax |-> FALSE, mistyped |-> {}, doc |-> EmptyDoc]

JSONBody(doc) == [syntax |-> TRUE, mistyped |-> {}, doc |-> doc]

Mistyped(doc, keys) == [syntax |-> TRUE, mistyped |-> keys, doc |-> doc]

TransportError == [transport |-> TRUE, status |-> 0, body |-> Garbage]

\* one HTTP request or response, as the remote end sees it
Event(ev, endpoint, id, basic, bearer, status) ==
    [ev |-> ev, endpoint |-> endpoint, id |-> id, basic |-> basic,
     bearer |-> bearer, status |-> status]

Exchange(req, resp) ==
    <<req, IF resp.transport
           THEN Event("transportError", req.endpoint, req.id, <<>>, "", 0)
           ELSE Event("response", req.endpoint, req.id, <<>>, "", resp.status)>>

\* the standard logger writes to standard error; log.Error of
\* opentracing-go/log only builds a field and writes nothing
Log(b, msg) == IF b = "part_002" THEN <<msg>> ELSE <<>>

\* ---------------------------------------------------------------- spotify
NilClient == [nil |-> TRUE, Token |-> "", ClientID |-> "", ClientSecret |-> ""]

NewClient(clientID, clientSecret) ==
    [nil |-> FALSE, Token |-> "", ClientID |-> clientID,
     ClientSecret |-> clientSecret]

\* The result of a method call on client o: the client afterwards, the
\* returned value and error, the HTTP traffic and log lines it produced, the
\* number of assignments it made to o.Token and the number of response
\* bodies it left open.
Out(o, val, err, events, logs, writes, open) ==
    [o |-> o, val |-> val, err |-> err, events |-> events, logs |-> logs,
     writes |-> writes, open |-> open]

TokenError == <<"spotify token error">>

TokenJSONError == <<"Problems getting spotify access token from JSON">>

\* refreshSpotifyToken without the status check
refreshSpotifyTokenAnyStatus(b, o, resp) ==
    LET req == Event("request", "token", "", <<o.ClientID, o.ClientSecret>>,
                     "", 0)
        spotTokenResp == UnmarshalToken(resp.body, ZeroTokenResponse).val
    IN IF resp.transport
       THEN Out(o, "", TokenError, Exchange(req, resp),
                Log(b, "Error hitting spotify to refresh token"), 0, 0)
       ELSE IF spotTokenResp.AccessToken = ""
       THEN Out(o, "", TokenJSONError, Exchange(req, resp),
                Log(b, "Problems getting spotify access token from JSON"),
                0, 0)
       ELSE Out([o EXCEPT !.Token = spotTokenResp.AccessToken],
                spotTokenResp.AccessToken, NoErr, Exchange(req, resp),
                <<>>, 1, 0)

\* refreshSpotifyToken without the check of the parsed access token
refreshSpotifyTokenAnyBody(b, o, resp) ==
    LET req == Event("request", "token", "", <<o.ClientID, o.ClientSecret>>,
                     "", 0)
        spotTokenResp == UnmarshalToken(resp.body, ZeroTokenResponse).val
    IN IF resp.transport \/ resp.status # 200
       THEN Out(o, "", TokenError, Exchange(req, resp),
                Log(b, "Error hitting spotify to refresh token"), 0,
                IF resp.transport THEN 0 ELSE 1)
       ELSE Out([o EXCEPT !.Token = spotTokenResp.AccessToken],
                spotTokenResp.AccessToken, NoErr, Exchange(req, resp),
                <<>>, 1, 0)

\* http.NewRequest cannot fail here: the method and the URL are constants
\* refreshSpotifyToken storing what the answer holds before judging it
refreshSpotifyTokenStoringFirst(b, o, resp) ==
    LET req == Event("request", "token", "", <<o.ClientID, o.ClientSecret>>,
                     "", 0)
        spotTokenResp == UnmarshalToken(resp.body, ZeroTokenResponse).val
        stored == [o EXCEPT !.Token = spotTokenResp.AccessToken]
    IN IF resp.transport
       THEN Out(o, "", TokenError, Exchange(req, resp), <<>>, 0, 0)
       ELSE IF resp.status # 200
       THEN Out(stored, "", TokenError, Exchange(req, resp), <<>>, 1, 1)
       ELSE IF spotTokenResp.AccessToken = ""
       THEN Out(stored, "", TokenJSONError, Exchange(req, resp), <<>>, 1, 0)
       ELSE Out(stored, spotTokenResp.AccessToken, NoErr,
                Exchange(req, resp), <<>>, 1, 0)

refreshSpotifyToken(b, o, resp) ==
    LET req == Event("request", "token", "", <<o.ClientID, o.ClientSecret>>,
                     "", 0)
        spotTokenResp == UnmarshalToken(resp.body, ZeroTokenResponse).val
    IN IF resp.transport \/ resp.status # 200
       THEN Out(o, "", TokenError, Exchange(req, resp),
                Log(b, "Error hitting spotify to refresh token"), 0,
                IF resp.transport THEN 0 ELSE 1)
       ELSE IF spotTokenResp.AccessToken = ""
       THEN Out(o, "", TokenJSONError, Exchange(req, resp),
                Log(b, "Problems getting spotify access token from JSON"),
                0, 0)
       ELSE Out([o EXCEPT !.Token = spotTokenResp.AccessToken],
                spotTokenResp.AccessToken, NoErr, Exchange(req, resp),
                <<>>, 1, 0)

\* getToken asking for a new token on every call
getTokenAlways(b, o, resp) == refreshSpotifyToken(b, o, resp)

getToken(b, o, resp) ==
    IF o.Token # ""
    THEN Out(o, o.Token, NoErr, <<>>, <<>>, 0, 0)
    ELSE refreshSpotifyToken(b, o, resp)

NewSpotify(b, clientID, clientSecret, resp) ==
    LET sp0 == NewClient(clientID, clientSecret)
        t == getToken(b, sp0, resp)
    IN IF IsErr(t.err)
       THEN Out(NilClient, NilClient, t.err, t.events,
                t.logs \o Log(b, "Unable to get token for API access."),
                t.writes, t.open)
       ELSE Out([t.o EXCEPT !.Token = t.val], [t.o EXCEPT !.Token = t.val],
                NoErr, t.events, t.logs, t.writes + 1, t.open)

\* the messages of the three fetch operations
TrackFetchError(ID) ==
    <<"error making call to spotify to get", "track", "information", ":", ID>>

AlbumFetchError(ID) ==
    <<"error making call to spotify to get", "album", "information">>

PlaylistFetchError(b, ID) ==
    IF b = "part_002"
    THEN <<"error making call to spotify to get", "playlist", "information">>
    ELSE <<"error making call to spotify to get", "album", "information">>

\* TrackFromID fetching a fresh token for every request
TrackFromIDRefreshing(b, o, ID, tokResp, resp) ==
    LET st == ZeroTrack
        t == refreshSpotifyToken(b, o, tokResp)
        req == Event("request", "tracks", ID, <<>>, t.val, 0)
        traffic == t.events \o Exchange(req, resp)
        u == UnmarshalTrack(resp.body, st)
    IN IF IsErr(t.err)
       THEN Out(t.o, st, t.err, t.events,
                t.logs \o Log(b, "error getting token"), t.writes, t.open)
       ELSE IF resp.transport
       THEN Out(t.o, st, TrackFetchError(ID), traffic,
                t.logs \o Log(b, "Error making call to spotify error:"),
                t.writes, t.open)
       ELSE IF resp.status # 200
       THEN Out(t.o, st, TrackFetchError(ID), traffic,
                t.logs \o Log(b, "Error making call to spotify"),
                t.writes, t.open)
       ELSE IF IsErr(u.err)
       THEN Out(t.o, u.val, u.err, traffic,
                t.logs \o Log(b, "Invalid JSON response from Spotify"),
                t.writes, t.open)
       ELSE Out(t.o, u.val, NoErr, traffic, t.logs, t.writes, t.open)

\* tokResp answers the token request if one is made, resp answers the GET;
\* http.NewRequest fails only on an ID that makes the URL unparsable, which
\* the ids of the model never do
TrackFromID(b, o, ID, tokResp, resp) ==
    LET st == ZeroTrack
        t == getToken(b, o, tokResp)
        req == Event("request", "tracks", ID, <<>>, t.val, 0)
        traffic == t.events \o Exchange(req, resp)
        u == UnmarshalTrack(resp.body, st)
    IN IF IsErr(t.err)
       THEN Out(t.o, st, t.err, t.events,
                t.logs \o Log(b, "error getting token"), t.writes, t.open)
       ELSE IF resp.transport
       THEN Out(t.o, st, TrackFetchError(ID), traffic,
                t.logs \o Log(b, "Error making call to spotify error:"),
                t.writes, t.open)
       ELSE IF resp.status # 200
       THEN Out(t.o, st, TrackFetchError(ID), traffic,
                t.logs \o Log(b, "Error making call to spotify"),
                t.writes, t.open)
       ELSE IF IsErr(u.err)
       THEN Out(t.o, u.val, u.err, traffic,
                t.logs \o Log(b, "Invalid JSON response from Spotify"),
                t.writes, t.open)
       ELSE Out(t.o, u.val, NoErr, traffic, t.logs, t.writes, t.open)

\* AlbumFromID going on to the GET whatever getToken returned
AlbumFromIDUnguarded(b, o, ID, tokResp, resp) ==
    LET album == ZeroAlbum
        t == getToken(b, o, tokResp)
        req == Event("request", "albums", ID, <<>>, t.val, 0)
        traffic == t.events \o Exchange(req, resp)
        u == UnmarshalAlbum(resp.body, album)
    IN IF resp.transport \/ resp.status # 200
       THEN Out(t.o, album, AlbumFetchError(ID), traffic, t.logs, t.writes,
                t.open)
       ELSE Out(t.o, u.val, u.err, traffic, t.logs, t.writes, t.open)

\* tokResp answers the token request if one is made, resp answers the GET;
\* http.NewRequest fails only on an ID that makes the URL unparsable, which
\* the ids of the model never do
AlbumFromID(b, o, ID, tokResp, resp) ==
    LET album == ZeroAlbum
        t == getToken(b, o, tokResp)
        req == Event("request", "albums", ID, <<>>, t.val, 0)
        traffic == t.events \o Exchange(req, resp)
        u == UnmarshalAlbum(resp.body, album)
    IN IF IsErr(t.err)
       THEN Out(t.o, album, t.err, t.events,
                t.logs \o Log(b, "error getting token"), t.writes, t.open)
       ELSE IF resp.transport
       THEN Out(t.o, album, AlbumFetchError(ID), traffic,
                t.logs \o Log(b, "Error making call to spotify error:"),
                t.writes, t.open)
       ELSE IF resp.status # 200
       THEN Out(t.o, album, AlbumFetchError(ID), traffic,
                t.logs \o Log(b, "Error making call to spotify"),
                t.writes, t.open)
       ELSE IF IsErr(u.err)
       THEN Out(t.o, u.val, u.err, traffic,
                t.logs \o Log(b, "Invalid JSON response from Spotify"),
                t.writes, t.open)
       ELSE Out(t.o, u.val, NoErr, traffic, t.logs, t.writes, t.open)

\* PlaylistFromID dropping the error of json.Unmarshal
PlaylistFromIDUnchecked(b, o, ID, tokResp, resp) ==
    LET playlist == ZeroPlaylist
        t == getToken(b, o, tokResp)
        req == Event("request", "playlists", ID, <<>>, t.val, 0)
        traffic == t.events \o Exchange(req, resp)
        u == UnmarshalPlaylist(resp.body, playlist)
    IN IF IsErr(t.err)
       THEN Out(t.o, playlist, t.err, t.events,
                t.logs \o Log(b, "error getting token"), t.writes, t.open)
       ELSE IF resp.transport
       THEN Out(t.o, playlist, PlaylistFetchError(b, ID), traffic,
                t.logs \o Log(b, "Error making call to spotify error:"),
                t.writes, t.open)
       ELSE IF resp.status # 200
       THEN Out(t.o, playlist, PlaylistFetchError(b, ID), traffic,
                t.logs \o Log(b, "Error making call to spotify"),
                t.writes, t.open)
       ELSE Out(t.o, u.val, NoErr, traffic, t.logs, t.writes, t.open)

\* tokResp answers the token request if one is made, resp answers the GET;
\* http.NewRequest fails only on an ID that makes the URL unparsable, which
\* the ids of the model never do
PlaylistFromID(b, o, ID, tokResp, resp) ==
    LET playlist == ZeroPlaylist
        t == getToken(b, o, tokResp)
        req == Event("request", "playlists", ID, <<>>, t.val, 0)
        traffic == t.events \o Exchange(req, resp)
        u == UnmarshalPlaylist(resp.body, playlist)
    IN IF IsErr(t.err)
       THEN Out(t.o, playlist, t.err, t.events,
                t.logs \o Log(b, "error getting token"), t.writes, t.open)
       ELSE IF resp.transport
       THEN Out(t.o, playlist, PlaylistFetchError(b, ID), traffic,
                t.logs \o Log(b, "Error making call to spotify error:"),
                t.writes, t.open)
       ELSE IF resp.status # 200
       THEN Out(t.o, playlist, PlaylistFetchError(b, ID), traffic,
                t.logs \o Log(b, "Error making call to spotify"),
                t.writes, t.open)
       ELSE IF IsErr(u.err)
       THEN Out(t.o, u.val, u.err, traffic,
                t.logs \o Log(b, "Invalid JSON response from Spotify"),
                t.writes, t.open)
       ELSE Out(t.o, u.val, NoErr, traffic, t.logs, t.writes, t.open)

\* ------------------------------------------------------------------ inputs
Img1 == [height |-> 640, width |-> 640, url |-> "img1"]

Img2 == [height |-> 300, width |-> 300, url |-> "img2"]

ArtistXDoc == [name |-> <<"Artist X">>]

ArtistYDoc == [name |-> <<"Artist Y">>, id |-> "ay"]

TrackDocA ==
    [name |-> "Song A", id |-> "t1", external_urls |-> [spotify |-> "url1"],
     album |-> [name |-> "Al1", images |-> <<>>,
                release_date |-> "2020-01-01"],
     artists |-> <<ArtistXDoc>>]

TrackDocB ==
    [name |-> "Song B", id |-> "t2", preview_url |-> "prev2",
     external_urls |-> [spotify |-> "url2"],
     album |-> [name |-> "Al2", id |-> "a2", images |-> <<Img1, Img2>>,
                release_date |-> "2021-05-05", artists |-> <<ArtistYDoc>>],
     artists |-> <<ArtistXDoc, ArtistYDoc>>]

TrackDocC == [name |-> "Song C", id |-> "t3"]

\* an artist whose name holds the separator, and an artist listed twice
ArtistZDoc == [name |-> <<"Earth", ", ", "Wind">>, id |-> "az"]

TrackDocD ==
    [name |-> "Song D", id |-> "t4",
     album |-> [name |-> "Al4", images |-> <<Img2, Img1>>,
                artists |-> <<>>],
     artists |-> <<ArtistYDoc, ArtistZDoc, ArtistYDoc>>]

TrackDocs == {TrackDocA, TrackDocB, TrackDocC, TrackDocD}

RECURSIVE SeqsUpTo(_, _)
SeqsUpTo(S, n) ==
    IF n = 0 THEN {<<>>}
    ELSE LET shorter == SeqsUpTo(S, n - 1)
         IN shorter \cup {Append(q, x) : q \in {r \in shorter : Len(r) = n - 1},
                                         x \in S}

ItemDocs == {[track |-> d] : d \in TrackDocs}

\* playlist documents: with 0..MaxTracks items, and with the "tracks" or the
\* "items" member absent
PlaylistDocs ==
    {[name |-> "Road Trip", id |-> "abc123", images |-> <<>>,
      tracks |-> [items |-> items]] : items \in SeqsUpTo(ItemDocs, MaxTracks)}
    \cup {[name |-> "Mix", id |-> "p2", images |-> <<Img1>>,
           tracks |-> [items |-> <<[track |-> TrackDocB]>>]],
          [name |-> "Bare", id |-> "p3"],
          [name |-> "NoItems", id |-> "p4", images |-> <<Img2>>,
           tracks |-> [total |-> 0]]}

ErrorDoc == [error |-> "not found"]

\* answers of a resource endpoint
FailedResponses ==
    {TransportError, Response(401, JSONBody(ErrorDoc)),
     Response(404, JSONBody(ErrorDoc)), Response(500, Garbage)}

PlaylistResponses ==
    FailedResponses
    \cup {Response(200, Garbage), Response(200, JSONBody(EmptyDoc)),
          Response(200, Mistyped([name |-> "<number>", id |-> "abc123"], {"name"}))}
    \cup {Response(200, JSONBody(d)) : d \in PlaylistDocs}
    \cup {Response(404, JSONBody(d)) : d \in {[name |-> "Bare", id |-> "p3"]}}

\* answers of the token endpoint
TokenDocs ==
    {[access_token |-> "tokA", token_type |-> "Bearer", expires_in |-> 3600],
     [access_token |-> "tokB"]}

TokenResponses ==
    {TransportError, Response(400, JSONBody(ErrorDoc)),
     Response(401, JSONBody([access_token |-> "tokA"])),
     Response(500, Garbage),
     Response(200, Garbage), Response(200, JSONBody(EmptyDoc)),
     Response(200, JSONBody([access_token |-> ""])),
     Response(200, Mistyped([access_token |-> "<number>"], {"access_token"}))}
    \cup {Response(200, JSONBody(d)) : d \in TokenDocs}

\* command lines: flag.Parse exits with status 2 on an unknown flag
DefaultPlaylist == "3rpdjX0UZGjjmk3A86FrU3"

CommandLines ==
    {[ok |-> TRUE, playlist |-> DefaultPlaylist],
     [ok |-> TRUE, playlist |-> "abc123"],
     [ok |-> FALSE, playlist |-> DefaultPlaylist]}

\* config.toml: absent, unparsable, or a tree of keys; a value is a string
\* or, here, an integer
StringValue(v) == [type |-> "string", v |-> v]

IntValue == [type |-> "int", v |-> "7"]

ConfigTrees ==
    {EmptyDoc,
     [client_id |-> StringValue("id1")],
     [client_secret |-> StringValue("sec1")],
     [client_id |-> IntValue, client_secret |-> StringValue("sec1")],
     [client_id |-> StringValue("id1"), client_secret |-> IntValue],
     [client_id |-> StringValue("id1"), client_secret |-> StringValue("sec1")],
     [client_id |-> StringValue(""), client_secret |-> StringValue("")]}

ConfigFiles ==
    {[exists |-> FALSE, parses |-> FALSE, tree |-> EmptyDoc],
     [exists |-> TRUE, parses |-> FALSE, tree |-> EmptyDoc]}
    \cup {[exists |-> TRUE, parses |-> TRUE, tree |-> t] : t \in ConfigTrees}

\* ------------------------------------------------------------------- state
VARIABLES
    build,        \* which copy of the spotify package is linked
    args,         \* the command line
    config,       \* config.toml as found in the working directory
    pc,           \* position of main; "lib" when the package is driven directly
    tree,         \* main: the parsed TOML tree
    clientID,     \* main: local clientID
    clientSecret, \* main: local clientSecret
    sp,           \* the *Spotify client (NilClient: none)
    playlist,     \* main: the fetched SpotifyPlaylist
    mp,           \* main: the translated MusicPlaylist
    events,       \* HTTP traffic and main's milestones, in order
    stdout,       \* documents written to standard output
    stderr,       \* lines written to standard error
    exit,         \* process exit status, -1 while running
    ret,          \* what the last call of the package returned
    call,         \* the last call of the package and the answers it got
    calls,        \* number of calls made to the package
    tokenWrites,  \* assignments made to sp.Token
    openBodies,   \* response bodies received and not closed
    album,        \* translator driver: the caller's SpotifyAlbum
    ma            \* translator driver: the translated MusicAlbum

vars ==
    <<build, args, config, pc, tree, clientID, clientSecret, sp, playlist, mp,
      events, stdout, stderr, exit, ret, call, calls, tokenWrites, openBodies,
      album, ma>>

Running == -1

\* asked: whether the call sent a token request (tokResp is its answer)
NoCall == [op |-> "none", ID |-> "", asked |-> FALSE,
           tokResp |-> TransportError, resp |-> TransportError]

Asked(r) == \E i \in 1..Len(r.events) : r.events[i].endpoint = "token"

NoRet == [val |-> NilClient, err |-> NoErr]

Milestone(name) == Event(name, "", "", <<>>, "", 0)

\* the effect of a call of the package on the state shared by both drivers
Apply(op, ID, tokResp, resp, r, after) ==
    /\ sp' = r.o
    /\ events' = events \o r.events
    /\ stderr' = stderr \o r.logs \o after
    /\ ret' = [val |-> r.val, err |-> r.err]
    /\ call' = [op |-> op, ID |-> ID, asked |-> Asked(r),
                tokResp |-> IF Asked(r) THEN tokResp ELSE TransportError,
                resp |-> resp]
    /\ calls' = calls + 1
    /\ tokenWrites' = tokenWrites + r.writes
    /\ openBodies' = openBodies + r.open

\* ----------------------------------------------------------- cmd/spdump
Init ==
    /\ build \in Builds
    /\ args \in CommandLines
    /\ config \in ConfigFiles
    /\ pc = "parse"
    /\ tree = EmptyDoc
    /\ clientID = ""
    /\ clientSecret = ""
    /\ sp = NilClient
    /\ playlist = ZeroPlaylist
    /\ mp = ConvertToMusicPlaylist(build, ZeroPlaylist)
    /\ events = <<>>
    /\ stdout = <<>>
    /\ stderr = <<>>
    /\ exit = Running
    /\ ret = NoRet
    /\ call = NoCall
    /\ calls = 0
    /\ tokenWrites = 0
    /\ openBodies = 0
    /\ album = ZeroAlbum
    /\ ma = ZeroMusicAlbum

\* panic(v): the runtime prints the panic to standard error and exits with 2
Panic ==
    /\ pc' = "done"
    /\ exit' = 2

\* flag.Parse()
ParseFlags ==
    /\ pc = "parse"
    /\ IF args.ok
       THEN /\ pc' = "readFile"
            /\ UNCHANGED <<exit, stderr>>
       ELSE /\ pc' = "done"
            /\ exit' = 2
            /\ stderr' = Append(stderr, "unknown flag")
    /\ UNCHANGED <<album, ma, build, args, config, tree, clientID, clientSecret, sp,
                   playlist, mp, events, stdout, ret, call, calls,
                   tokenWrites, openBodies>>

\* ioutil.ReadFile("config.toml")
ReadConfig ==
    /\ pc = "readFile"
    /\ IF config.exists
       THEN /\ pc' = "tomlLoad"
            /\ UNCHANGED <<exit, stderr>>
       ELSE /\ Panic
            /\ stderr' = Append(stderr, "panic: open config.toml")
    /\ UNCHANGED <<album, ma, build, args, config, tree, clientID, clientSecret, sp,
                   playlist, mp, events, stdout, ret, call, calls,
                   tokenWrites, openBodies>>

\* toml.Load(string(tomlData))
LoadToml ==
    /\ pc = "tomlLoad"
    /\ IF config.parses
       THEN /\ pc' = "clientID"
            /\ tree' = config.tree
            /\ UNCHANGED <<exit, stderr>>
       ELSE /\ Panic
            /\ stderr' = Append(stderr, "panic: toml")
            /\ UNCHANGED tree
    /\ UNCHANGED <<album, ma, build, args, config, clientID, clientSecret, sp,
                   playlist, mp, events, stdout, ret, call, calls,
                   tokenWrites, openBodies>>

\* config.Get(key).(string): the assertion panics on nil and on a non-string
IsString(t, key) == Has(t, key) /\ t[key].type = "string"

GetClientID ==
    /\ pc = "clientID"
    /\ IF IsString(tree, "client_id")
       THEN /\ pc' = "clientSecret"
            /\ clientID' = tree["client_id"].v
            /\ UNCHANGED <<exit, stderr>>
       ELSE /\ Panic
            /\ stderr' = Append(stderr, "panic: interface conversion")
            /\ UNCHANGED clientID
    /\ UNCHANGED <<album, ma, build, args, config, tree, clientSecret, sp,
                   playlist, mp, events, stdout, ret, call, calls,
                   tokenWrites, openBodies>>

\* the second assertion, then log.Println("clientID: ", clientID)
GetClientSecret ==
    /\ pc = "clientSecret"
    /\ IF IsString(tree, "client_secret")
       THEN /\ pc' = "newSpotify"
            /\ clientSecret' = tree["client_secret"].v
            /\ stderr' = Append(stderr, "clientID: ")
            /\ UNCHANGED exit
       ELSE /\ Panic
            /\ stderr' = Append(stderr, "panic: interface conversion")
            /\ UNCHANGED clientSecret
    /\ UNCHANGED <<album, ma, build, args, config, tree, clientID, sp,
                   playlist, mp, events, stdout, ret, call, calls,
                   tokenWrites, openBodies>>

\* sp, err := spotify.NewSpotify(clientID, clientSecret)
CallNewSpotify ==
    /\ pc = "newSpotify"
    /\ \E tokResp \in TokenResponses :
         LET r == NewSpotify(build, clientID, clientSecret, tokResp)
         IN /\ IF IsErr(r.err)
               THEN /\ Panic
                    /\ Apply("NewSpotify", "", tokResp, TransportError, r,
                             <<"panic: token">>)
               ELSE /\ pc' = "playlistFromID"
                    /\ Apply("NewSpotify", "", tokResp, TransportError, r,
                             <<>>)
                    /\ UNCHANGED exit
    /\ UNCHANGED <<album, ma, build, args, config, tree, clientID, clientSecret,
                   playlist, mp, stdout>>

\* main going on with whatever PlaylistFromID returned
CallPlaylistFromIDLenient ==
    /\ pc = "playlistFromID"
    /\ \E tokResp \in TokenResponses, resp \in PlaylistResponses :
         LET r == PlaylistFromID(build, sp, args.playlist, tokResp, resp)
         IN /\ playlist' = r.val
            /\ pc' = "convert"
            /\ Apply("PlaylistFromID", args.playlist, tokResp, resp, r, <<>>)
            /\ UNCHANGED exit
    /\ UNCHANGED <<album, ma, build, args, config, tree, clientID, clientSecret, mp,
                   stdout>>

\* playlist, err := sp.PlaylistFromID(*playlistPtr)
CallPlaylistFromID ==
    /\ pc = "playlistFromID"
    /\ \E tokResp \in TokenResponses, resp \in PlaylistResponses :
         LET r == PlaylistFromID(build, sp, args.playlist, tokResp, resp)
         IN /\ playlist' = r.val
            /\ IF IsErr(r.err)
               THEN /\ Panic
                    /\ Apply("PlaylistFromID", args.playlist, tokResp, resp,
                             r, <<"panic: playlist">>)
               ELSE /\ pc' = "convert"
                    /\ Apply("PlaylistFromID", args.playlist, tokResp, resp,
                             r, <<>>)
                    /\ UNCHANGED exit
    /\ UNCHANGED <<album, ma, build, args, config, tree, clientID, clientSecret, mp,
                   stdout>>

\* mp := spotify.ConvertToMusicPlaylist(playlist)
Convert ==
    /\ pc = "convert"
    /\ mp' = ConvertToMusicPlaylist(build, playlist)
    /\ events' = Append(events, Milestone("translated"))
    /\ pc' = "print"
    /\ UNCHANGED <<album, ma, build, args, config, tree, clientID, clientSecret, sp,
                   playlist, stdout, stderr, exit, ret, call, calls,
                   tokenWrites, openBodies>>

\* main printing mp before the translation has run
PrintPlaylistEarly ==
    /\ pc = "convert"
    /\ stdout' = Append(stdout, MarshalPlaylist(mp))
    /\ events' = Append(events, Milestone("written"))
    /\ pc' = "done"
    /\ exit' = 0
    /\ UNCHANGED <<album, ma, build, args, config, tree, clientID, clientSecret, sp,
                   playlist, mp, stderr, ret, call, calls, tokenWrites,
                   openBodies>>

\* bytes, _ := json.Marshal(mp); fmt.Println(string(bytes)); main returns
PrintPlaylist ==
    /\ pc = "print"
    /\ stdout' = Append(stdout, MarshalPlaylist(mp))
    /\ events' = Append(events, Milestone("written"))
    /\ pc' = "done"
    /\ exit' = 0
    /\ UNCHANGED <<album, ma, build, args, config, tree, clientID, clientSecret, sp,
                   playlist, mp, stderr, ret, call, calls, tokenWrites,
                   openBodies>>

\* http.Client.Timeout of the three fetch operations, in seconds
GetTimeout == 15

\* refreshSpotifyToken builds &http.Client{}: the zero Timeout, no time limit
TokenTimeout == 0

\* every client built without a time limit
ClientTimeoutNone(endpoint) == TokenTimeout

ClientTimeout(endpoint) ==
    IF endpoint = "token" THEN TokenTimeout ELSE GetTimeout

\* The remote end never answers the request main is waiting on.  client.Do
\* returns only on an answer, a transport error or the expiry of the client's
\* Timeout; the expiry is the transport error that CallNewSpotify and
\* CallPlaylistFromID already draw, so what is left is the client with no
\* time limit, whose call never returns.
NeverAnswered ==
    /\ pc \in {"newSpotify", "playlistFromID"}
    /\ LET o == IF pc = "newSpotify"
                THEN NewClient(clientID, clientSecret)
                ELSE sp
           req == IF o.Token = ""
                  THEN Event("request", "token", "",
                             <<o.ClientID, o.ClientSecret>>, "", 0)
                  ELSE Event("request", "playlists", args.playlist, <<>>,
                             o.Token, 0)
       IN /\ ClientTimeout(req.endpoint) = 0
          /\ events' = Append(events, req)
    /\ pc' = "hung"
    /\ UNCHANGED <<album, ma, build, args, config, tree, clientID,
                   clientSecret, sp, playlist, mp, stdout, stderr, exit, ret,
                   call, calls, tokenWrites, openBodies>>

Next ==
    \/ ParseFlags
    \/ ReadConfig
    \/ LoadToml
    \/ GetClientID
    \/ GetClientSecret
    \/ CallNewSpotify
    \/ CallPlaylistFromID
    \/ Convert
    \/ PrintPlaylist
    \/ NeverAnswered

Spec == Init /\ [][Next]_vars

\* main is one goroutine running straight-line code: a step that can be
\* taken is taken
SpecLive == Init /\ [][Next]_vars /\ WF_vars(Next)

\* ------------------------------------------- the package driven directly
\* Any caller of the package: it builds one client, with NewSpotify or as a
\* struct literal (the type and its fields are exported), and then calls the
\* three fetch operations in any order, at most MaxCalls calls in all.
TrackIDs == {"id1", "id2"}

AlbumIDs == {"id1"}

PlaylistIDs == {"id2"}

LibTokenResponses ==
    {TransportError, Response(401, JSONBody(ErrorDoc)),
     Response(200, Garbage), Response(200, JSONBody([access_token |-> ""])),
     Response(200, JSONBody([access_token |-> "tokA"])),
     Response(200, JSONBody([access_token |-> "tokB"])),
     Response(401, JSONBody([access_token |-> "tokC"]))}

LibFailedResponses == {TransportError, Response(401, JSONBody(ErrorDoc))}

LibTrackResponses ==
    LibFailedResponses
    \cup {Response(200, Garbage), Response(200, JSONBody(TrackDocB))}

AlbumDoc ==
    [name |-> "Al2", id |-> "a2", images |-> <<Img1>>,
     release_date |-> "2021-05-05", artists |-> <<ArtistYDoc>>,
     tracks |-> [items |-> <<[name |-> "Song B", id |-> "t2",
                              artists |-> <<ArtistXDoc>>]>>]]

LibAlbumResponses ==
    LibFailedResponses
    \cup {Response(200, Mistyped([name |-> "Al2", images |-> "<string>"],
                                 {"images"})),
          Response(200, JSONBody(AlbumDoc))}

LibPlaylistResponses ==
    LibFailedResponses
    \cup {Response(200, Garbage),
          Response(200, JSONBody([name |-> "Mix", id |-> "p2",
                                  tracks |-> [items |-> <<[track |-> TrackDocA]>>]]))}

InitLib ==
    /\ build \in Builds
    /\ args = [ok |-> TRUE, playlist |-> DefaultPlaylist]
    /\ config = [exists |-> FALSE, parses |-> FALSE, tree |-> EmptyDoc]
    /\ pc = "lib"
    /\ tree = EmptyDoc
    /\ clientID = ""
    /\ clientSecret = ""
    /\ sp = NilClient
    /\ playlist = ZeroPlaylist
    /\ mp = ConvertToMusicPlaylist(build, ZeroPlaylist)
    /\ events = <<>>
    /\ stdout = <<>>
    /\ stderr = <<>>
    /\ exit = Running
    /\ ret = NoRet
    /\ call = NoCall
    /\ calls = 0
    /\ tokenWrites = 0
    /\ openBodies = 0
    /\ album = ZeroAlbum
    /\ ma = ZeroMusicAlbum

LibUnchanged ==
    UNCHANGED <<album, ma, build, args, config, pc, tree, clientID, clientSecret,
                playlist, mp, stdout, exit>>

\* sp, err := NewSpotify("id1", "sec1")
LibNewSpotify ==
    /\ pc = "lib" /\ sp.nil /\ calls < MaxCalls
    /\ \E tokResp \in LibTokenResponses :
         Apply("NewSpotify", "", tokResp, TransportError,
               NewSpotify(build, "id1", "sec1", tokResp), <<>>)
    /\ LibUnchanged

\* sp := &Spotify{ClientID: "id1", ClientSecret: "sec1"}
LibLiteral ==
    /\ pc = "lib" /\ sp.nil /\ calls = 0
    /\ sp' = NewClient("id1", "sec1")
    /\ UNCHANGED <<events, stderr, ret, call, calls, tokenWrites, openBodies>>
    /\ LibUnchanged

LibTrackFromID ==
    /\ pc = "lib" /\ ~sp.nil /\ calls < MaxCalls
    /\ \E ID \in TrackIDs, tokResp \in LibTokenResponses,
          resp \in LibTrackResponses :
         Apply("TrackFromID", ID, tokResp, resp,
               TrackFromID(build, sp, ID, tokResp, resp), <<>>)
    /\ LibUnchanged

LibAlbumFromID ==
    /\ pc = "lib" /\ ~sp.nil /\ calls < MaxCalls
    /\ \E ID \in AlbumIDs, tokResp \in LibTokenResponses,
          resp \in LibAlbumResponses :
         Apply("AlbumFromID", ID, tokResp, resp,
               AlbumFromID(build, sp, ID, tokResp, resp), <<>>)
    /\ LibUnchanged

LibPlaylistFromID ==
    /\ pc = "lib" /\ ~sp.nil /\ calls < MaxCalls
    /\ \E ID \in PlaylistIDs, tokResp \in LibTokenResponses,
          resp \in LibPlaylistResponses :
         Apply("PlaylistFromID", ID, tokResp, resp,
               PlaylistFromID(build, sp, ID, tokResp, resp), <<>>)
    /\ LibUnchanged

NextLib ==
    \/ LibNewSpotify
    \/ LibLiteral
    \/ LibTrackFromID
    \/ LibAlbumFromID
    \/ LibPlaylistFromID

SpecLib == InitLib /\ [][NextLib]_vars

\* ------------------------------------------------ the translator driven
\* A caller that holds a decoded album and translates it.
NestedTrackDocs ==
    {[name |-> "Song B", id |-> "t2", artists |-> <<ArtistXDoc>>],
     [name |-> "Song E", id |-> "t5"],
     [name |-> "Song F", id |-> "t6", artists |-> <<ArtistYDoc, ArtistXDoc>>,
      album |-> [name |-> "Other", release_date |-> "1980"]],
     [name |-> "Song G", id |-> "t7", preview_url |-> "prev7",
      external_urls |-> [spotify |-> "url7"]]}

AlbumHeads ==
    {[name |-> "Al2", id |-> "a2", images |-> <<Img1>>,
      release_date |-> "2021-05-05", artists |-> <<ArtistYDoc>>],
     [name |-> "Al5", id |-> "a5", images |-> <<Img1, Img2>>,
      release_date |-> "1999", artists |-> <<ArtistXDoc, ArtistYDoc>>],
     [name |-> "Al6", id |-> "a6"]}

AlbumDocs ==
    AlbumHeads
    \cup {h @@ [tracks |-> [items |-> items]] :
              h \in AlbumHeads, items \in SeqsUpTo(NestedTrackDocs, MaxTracks)}

Albums == {UnmarshalAlbum(JSONBody(d), ZeroAlbum).val : d \in AlbumDocs}

InitConv ==
    /\ build = "spotify_go"
    /\ args = [ok |-> TRUE, playlist |-> DefaultPlaylist]
    /\ config = [exists |-> FALSE, parses |-> FALSE, tree |-> EmptyDoc]
    /\ pc = "conv"
    /\ tree = EmptyDoc
    /\ clientID = ""
    /\ clientSecret = ""
    /\ sp = NilClient
    /\ playlist = ZeroPlaylist
    /\ mp = ConvertToMusicPlaylist(build, ZeroPlaylist)
    /\ events = <<>>
    /\ stdout = <<>>
    /\ stderr = <<>>
    /\ exit = Running
    /\ ret = NoRet
    /\ call = NoCall
    /\ calls = 0
    /\ tokenWrites = 0
    /\ openBodies = 0
    /\ album \in Albums
    /\ ma = ZeroMusicAlbum

\* ma := spotify.ConvertToMusicAlbum(album)
ConvAlbum ==
    /\ pc = "conv"
    /\ LET r == ConvertToMusicAlbum(album)
       IN /\ ma' = r.ma
          /\ album' = r.sa
    /\ pc' = "converted"
    /\ UNCHANGED <<build, args, config, tree, clientID, clientSecret, sp,
                   playlist, mp, events, stdout, stderr, exit, ret, call,
                   calls, tokenWrites, openBodies>>

NextConv == ConvAlbum

SpecConv == InitConv /\ [][NextConv]_vars

\* ----------------------------------------------------------------- claims
ResourceEndpoints == {"tracks", "albums", "playlists"}

\* the translation has run on the fetched playlist
Converted == pc = "print" \/ (pc = "done" /\ exit = 0)

Items == playlist.TracksCollection.Items

IsGet(e) == e.ev = "request" /\ e.endpoint \in ResourceEndpoints

IsTokenRequest(e) == e.ev = "request" /\ e.endpoint = "token"

IsTokenOK(e) == e.ev = "response" /\ e.endpoint = "token" /\ e.status = 200

IsTokenRejected(e) == e.ev = "response" /\ e.endpoint = "token" /\ e.status # 200

IsPlaylistOK(e) == e.ev = "response" /\ e.endpoint = "playlists" /\ e.status = 200

IsTranslated(e) == e.ev = "translated"

IsWritten(e) == e.ev = "written"

Indices == 1..Len(events)

Gets == {i \in Indices : IsGet(events[i])}

TokenRequests == {i \in Indices : IsTokenRequest(events[i])}

TokenOKs == {i \in Indices : IsTokenOK(events[i])}

TokenRejections == {i \in Indices : IsTokenRejected(events[i])}

PlaylistOKs == {i \in Indices : IsPlaylistOK(events[i])}

Translations == {i \in Indices : IsTranslated(events[i])}

Writes == {i \in Indices : IsWritten(events[i])}

\* every index of Q comes after some index of P
Precedes(P, Q) == \A j \in Q : \E i \in P : i < j

\* C1: a playlist with N nested items is translated to exactly N tracks,
\* the i-th being the Track->MusicTrack mapping of the i-th item's track.
C1_TracksInOrder ==
    Converted =>
        /\ GoLen(mp.Tracks) = GoLen(Items)
        /\ \A i \in 1..GoLen(Items) :
               mp.Tracks.elems[i] = TrackOf(build, Items.elems[i].Track)

C1_Witness ==
    /\ Converted
    /\ GoLen(Items) >= 2
    /\ Items.elems[1] # Items.elems[2]
    /\ GoLen(mp.Tracks) = GoLen(Items)

\* C2: after a non-200 answer of the token endpoint NewSpotify has returned
\* no client and an error, and no GET to a resource endpoint is ever sent.
C2_RejectedTokenStopsRun ==
    TokenRejections # {} =>
        /\ sp.nil
        /\ call.op = "NewSpotify" /\ IsErr(ret.err)
        /\ Gets = {}
        /\ pc = "done" /\ exit # 0

C2_Witness ==
    /\ TokenRejections # {}
    /\ call.tokResp.status = 401
    /\ Has(call.tokResp.body.doc, "access_token")
    /\ pc = "done"

\* C3: a 200 answer of the token endpoint whose access_token is absent or
\* empty, or whose body is not JSON (or not JSON of the expected type), is
\* handled like a non-200 answer: error, no assignment to Token, no client,
\* no resource fetch.
NoAccessToken(body) ==
    \/ ~body.syntax
    \/ ~Has(body.doc, "access_token")
    \/ "access_token" \in body.mistyped
    \/ body.doc["access_token"] = ""

EmptyTokenAnswer ==
    /\ call.asked
    /\ ~call.tokResp.transport
    /\ call.tokResp.status = 200
    /\ NoAccessToken(call.tokResp.body)

C3_EmptyTokenIsFailure ==
    EmptyTokenAnswer =>
        /\ IsErr(ret.err)
        /\ sp.nil /\ sp.Token = ""
        /\ tokenWrites = 0
        /\ Gets = {}
        /\ pc = "done" /\ exit # 0

C3_Witness ==
    /\ EmptyTokenAnswer
    /\ call.tokResp.body.syntax
    /\ Has(call.tokResp.body.doc, "access_token")
    /\ call.tokResp.body.mistyped = {}
    /\ pc = "done"

\* C4: the run is sequential: a 200 answer to the token request is received
\* before any resource GET is sent, the playlist answer before the
\* translation, and the translation before the write to standard output.
C4_Sequential ==
    /\ Precedes(TokenOKs, Gets)
    /\ Precedes(PlaylistOKs, Translations)
    /\ Precedes(Translations, Writes)
    /\ stdout # <<>> => Writes # {}
    /\ Writes # {} => mp = ConvertToMusicPlaylist(build, playlist)

C4_Witness ==
    /\ pc = "done" /\ exit = 0
    /\ Len(events) = 6
    /\ IsTokenRequest(events[1]) /\ IsTokenOK(events[2])
    /\ IsGet(events[3]) /\ IsPlaylistOK(events[4])
    /\ IsTranslated(events[5]) /\ IsWritten(events[6])
    /\ Len(stdout) = 1

FetchOps == {"TrackFromID", "AlbumFromID", "PlaylistFromID"}

HoldsToken == ~sp.nil /\ sp.Token # ""

\* C5 as stated: Token is assigned at most once in a run.
C5_AtMostOneWrite == tokenWrites <= 1

\* C5 as amended: Token changes value at most once, from empty to the
\* acquired token, and is never assigned again once it is set; the
\* assignments all belong to the one successful acquisition, which makes two
\* of them (the same value) inside NewSpotify and one on a client built
\* without it.
C5_TokenSetOnce ==
    [][/\ tokenWrites' <= 2
       /\ tokenWrites' # tokenWrites => tokenWrites = 0 /\ sp'.Token # ""
       /\ HoldsToken => sp'.Token = sp.Token /\ tokenWrites' = tokenWrites]_vars

C5_Witness ==
    /\ HoldsToken
    /\ tokenWrites = 2
    /\ calls >= 3
    /\ call.op \in FetchOps

ConfigFailure ==
    \/ pc \notin {"parse", "readFile"} /\ ~config.exists
    \/ pc \notin {"parse", "readFile", "tomlLoad"} /\ ~config.parses
    \/ /\ pc \notin {"parse", "readFile", "tomlLoad", "clientID"}
       /\ ~IsString(config.tree, "client_id")
    \/ /\ pc \notin {"parse", "readFile", "tomlLoad", "clientID",
                     "clientSecret"}
       /\ ~IsString(config.tree, "client_secret")

CallFailure == IsErr(ret.err)

RequestsTo(endpoint) ==
    {i \in 1..Len(events) :
         events[i].ev = "request" /\ events[i].endpoint = endpoint}

C7_FirstFailureIsFatal ==
    /\ ConfigFailure \/ CallFailure =>
           pc = "done" /\ exit \notin {Running, 0} /\ stdout = <<>>
    /\ ConfigFailure => events = <<>>
    /\ CallFailure =>
           events[Len(events)].ev \in {"response", "transportError"}
    /\ \A e \in ResourceEndpoints \cup {"token"} :
           Cardinality(RequestsTo(e)) <= 1
    /\ exit \notin {Running, 0} => stdout = <<>> /\ Writes = {}

C7_Witness ==
    /\ pc = "done" /\ exit = 2
    /\ call.op = "PlaylistFromID"
    /\ ret.err = JSONTypeError
    /\ Len(events) = 4

\* the last call sent its GET
GetSent ==
    /\ call.op \in FetchOps
    /\ events # <<>>
    /\ events[Len(events)].endpoint \in ResourceEndpoints

Kind(op) ==
    IF op = "TrackFromID" THEN "track"
    ELSE IF op = "AlbumFromID" THEN "album"
    ELSE "playlist"

\* C8: a transport error or a status other than 200 makes TrackFromID,
\* AlbumFromID and PlaylistFromID fail with an error that names the kind of
\* resource and the requested id.
C8_FetchErrorNamesKindAndID ==
    GetSent /\ (call.resp.transport \/ call.resp.status # 200) =>
        /\ IsErr(ret.err)
        /\ Kind(call.op) \in Range(ret.err)
        /\ call.ID \in Range(ret.err)

FetchErrors(ID) ==
    {TrackFetchError(ID), AlbumFetchError(ID)}
    \cup {PlaylistFetchError(b, ID) : b \in Builds}

Malformed(body) == ~body.syntax \/ body.mistyped # {}

\* C9: on a 200 answer, a body that is not JSON of the entity's shape makes
\* the operation fail with the decoder's error, which is not the fetch
\* error; a well-formed body is returned decoded, with no error.
C9_DecodeErrorOrEntity ==
    GetSent /\ ~call.resp.transport /\ call.resp.status = 200 =>
        LET body == call.resp.body
        IN IF Malformed(body)
           THEN /\ ret.err \in {JSONSyntaxError, JSONTypeError}
                /\ ret.err \notin FetchErrors(call.ID)
           ELSE /\ ~IsErr(ret.err)
                /\ Has(body.doc, "name") => ret.val.Name = body.doc["name"]
                /\ Has(body.doc, "id") =>
                       ret.val.IntegrationID = body.doc["id"]
                /\ call.op = "PlaylistFromID" /\ Has(body.doc, "tracks") =>
                       GoLen(ret.val.TracksCollection.Items)
                           = Len(body.doc["tracks"]["items"])

C9_Witness ==
    /\ GetSent
    /\ call.op = "PlaylistFromID"
    /\ call.resp.status = 200
    /\ ~call.resp.body.syntax
    /\ ret.err = JSONSyntaxError

\* C10: a playlist with no nested track is translated without failure to a
\* MusicPlaylist whose Tracks is nil, hence left out of the JSON document,
\* with Name, IntegrationID and PlaylistArt copied.
C10_EmptyPlaylist ==
    Converted /\ GoLen(Items) = 0 =>
        /\ mp.Tracks.nil /\ GoLen(mp.Tracks) = 0
        /\ mp.Name = playlist.Name
        /\ mp.IntegrationID = playlist.IntegrationID
        /\ mp.PlaylistArt = playlist.Images
        /\ pc = "done" =>
               /\ exit = 0
               /\ Len(stdout) = 1
               /\ ~Has(stdout[1], "Tracks")
               /\ stdout[1].Name = playlist.Name
               /\ stdout[1].IntegrationID = playlist.IntegrationID
               /\ stdout[1].PlaylistArt = playlist.Images

C10_Witness ==
    /\ pc = "done" /\ exit = 0
    /\ Items = MkSlice(<<>>)
    /\ playlist.Name = "Road Trip"
    /\ Len(stdout) = 1

\* the source track of the i-th translated track
SourceTrack(i) == Items.elems[i].Track

\* where the i-th name starts in the joined text, less one
RECURSIVE Offset(_, _)
Offset(names, i) ==
    IF i <= 1 THEN 0 ELSE Offset(names, i - 1) + Len(names[i - 1]) + 1

\* text is names[1], ", ", names[2], ", ", ..., names[k] and nothing else
JoinedInOrder(text, names) ==
    LET k == Len(names)
    IN IF k = 0 THEN text = <<>>
       ELSE /\ Len(text) = Offset(names, k) + Len(names[k])
            /\ \A i \in 1..k :
                   /\ SubSeq(text, Offset(names, i) + 1,
                             Offset(names, i) + Len(names[i])) = names[i]
                   /\ i > 1 => text[Offset(names, i)] = ", "

\* list is one MusicArtist per source artist, in source order
ListedInOrder(list, artists) ==
    /\ GoLen(list) = Len(artists)
    /\ \A i \in 1..Len(artists) :
           /\ list.elems[i].Name = artists[i].Name
           /\ list.elems[i].IntegrationID = artists[i].IntegrationID

\* C11: the artist representation of a translated track holds every artist
\* of the source track exactly once, in source order: the names joined by
\* ", " (part_002) or one record per artist (spotify.go); no artist gives an
\* empty representation.
C11_ArtistsInOrder ==
    Converted =>
        \A i \in 1..GoLen(Items) :
            LET artists == SourceTrack(i).Artists.elems
                out == mp.Tracks.elems[i].Artists
            IN IF build = "part_002"
               THEN JoinedInOrder(out, [j \in 1..Len(artists) |->
                                            artists[j].Name])
               ELSE ListedInOrder(out, artists)

C11_Witness ==
    /\ Converted
    /\ build = "part_002"
    /\ \E i \in 1..GoLen(Items) :
           /\ GoLen(SourceTrack(i).Artists) = 2
           /\ mp.Tracks.elems[i].Artists = <<"Artist X", ", ", "Artist Y">>

\* C12: the AlbumArt of a translated track is the image list of the source
\* track's embedded album: same length, same URL, height and width at every
\* position.
C12_AlbumArtCopied ==
    Converted =>
        \A i \in 1..GoLen(Items) :
            LET images == SourceTrack(i).Album.Images
                art == mp.Tracks.elems[i].AlbumArt
            IN /\ GoLen(art) = GoLen(images)
               /\ art.nil = images.nil
               /\ \A j \in 1..GoLen(images) :
                      /\ art.elems[j].URL = images.elems[j].URL
                      /\ art.elems[j].Height = images.elems[j].Height
                      /\ art.elems[j].Width = images.elems[j].Width

C12_Witness ==
    /\ Converted
    /\ \E i \in 1..GoLen(Items) :
           /\ GoLen(mp.Tracks.elems[i].AlbumArt) = 2
           /\ mp.Tracks.elems[i].AlbumArt.elems[1].URL = "img2"
           /\ mp.Tracks.elems[i].AlbumArt.elems[2].URL = "img1"

NestedItems == album.TracksCollection.Items

\* C13: ConvertToMusicAlbum maps every nested track with the parent album
\* attached: one output track per nested track, in source order, whose
\* AlbumName, AlbumArt and AlbumReleaseDate are the parent's name, images
\* and release date whatever the nested track's own album field holds; the
\* caller's album is left as it was.
C13_TracksTakeParentAlbum ==
    [][pc = "conv" /\ pc' = "converted" =>
          /\ album' = album
          /\ GoLen(ma'.Tracks) = GoLen(NestedItems)
          /\ \A i \in 1..GoLen(NestedItems) :
                 /\ ma'.Tracks.elems[i].Name = NestedItems.elems[i].Name
                 /\ ma'.Tracks.elems[i].IntegrationID
                        = NestedItems.elems[i].IntegrationID
                 /\ ma'.Tracks.elems[i].AlbumName = album.Name
                 /\ ma'.Tracks.elems[i].AlbumArt = album.Images
                 /\ ma'.Tracks.elems[i].AlbumReleaseDate = album.ReleaseDate]_vars

C13_Witness ==
    /\ pc = "converted"
    /\ GoLen(NestedItems) >= 2
    /\ NestedItems.elems[1].Album = ZeroAlbum
    /\ NestedItems.elems[2].Album.Name = "Other"
    /\ ma.Tracks.elems[1].AlbumName = "Al5"
    /\ ma.Tracks.elems[2].AlbumName = "Al5"
    /\ GoLen(ma.Tracks.elems[2].AlbumArt) = 2
    /\ ma.Tracks.elems[2].AlbumReleaseDate = "1999"

\* the scenario's playlist as main holds it after a 200 answer
RoadTrip ==
    UnmarshalPlaylist(
        JSONBody([name |-> "Road Trip", id |-> "abc123", images |-> <<>>,
                  tracks |-> [items |-> <<[track |-> TrackDocA]>>]]),
        ZeroPlaylist).val

\* MusicTrack.Artists is declared string in part_002 and []MusicArtist in
\* internal/spotify/spotify.go
ArtistsIsString == build = "part_002"

\* C14: the run that is given a token and the "Road Trip" playlist writes one
\* MusicPlaylist named "Road Trip" with id "abc123" and exactly one track,
\* "Song A" of album "Al1" released 2020-01-01, external url "url1", source
\* "spotify", whose Artists is the string "Artist X".
C14_RoadTripOutput ==
    (pc = "done" /\ exit = 0 /\ playlist = RoadTrip) =>
        /\ Len(stdout) = 1
        /\ mp.Name = "Road Trip"
        /\ mp.IntegrationID = "abc123"
        /\ GoLen(mp.Tracks) = 1
        /\ mp.Tracks.elems[1].Name = "Song A"
        /\ mp.Tracks.elems[1].AlbumName = "Al1"
        /\ mp.Tracks.elems[1].AlbumReleaseDate = "2020-01-01"
        /\ mp.Tracks.elems[1].ExternalURL = "url1"
        /\ mp.Tracks.elems[1].Source = "spotify"
        /\ ArtistsIsString
        /\ mp.Tracks.elems[1].Artists = <<"Artist X">>

LastEvent == events[Len(events)]

\* main blocked in client.Do on the token request
BlockedOnToken ==
    pc = "hung" /\ Len(events) > 0 /\ IsTokenRequest(LastEvent)

\* C15: every run ends, with the document written or by a fatal failure,
\* unless it is blocked on the token request, the one request sent without
\* a time limit; a resource GET never blocks a run.
C15_Terminates == <>(pc = "done" \/ BlockedOnToken)

C15_Witness ==
    /\ pc = "done" /\ exit = 2
    /\ call.op = "PlaylistFromID"
    /\ call.resp = TransportError
    /\ Len(events) > 0
    /\ LastEvent.ev = "transportError"
    /\ LastEvent.endpoint = "playlists"

\* the events the step under way has added
NewEvents == SubSeq(events', Len(events) + 1, Len(events'))

\* an answer to the token request that yields no token
AcquisitionFails(resp) ==
    resp.transport \/ resp.status # 200 \/ NoAccessToken(resp.body)

AccessTokenOf(resp) == resp.body.doc["access_token"]

C18_BodiesClosed == openBodies = 0

====
